---- MODULE Spec2Model ----
(***************************************************************************)
(* Verification model of the wavetrx protocol engine: the FSK frame        *)
(* transmitter, the resolver state machine and the live receiver.          *)
(***************************************************************************)
EXTENDS Integers, Sequences, FiniteSets, TLC

VARIABLES
    resolver,   \* RxResolver: [c_marker, e_marker], each <<selection, expectation>>
    output,     \* RxOutput of the last resolve call: [kind, bit]
    mags,       \* RxMagnitudes of the last analysed window
    call,       \* the last resolver call: op, state before it, its two flags
    prevcall,   \* the resolver call before the last one
    data,       \* the payload handed to the transmitter
    tx_samples, \* the samples produced by the transmitter
    pos,        \* number of pulses of the frame presented to the receiver
    buffer,     \* LiveReceiver.buffer
    bits,       \* LiveReceiver.bits
    start_idx,  \* LiveReceiver.start_idx, None is NoneIdx
    start_signal, \* LiveReceiver.start_signal
    delivered,  \* the payloads the receiver has printed, in order
    panicked,   \* the receiver has panicked
    stream,     \* the samples the live receiver is going to be fed
    fed,        \* how many samples of the stream have been fed
    log,        \* the outputs of the resolver during the last add_samples call
    stage,      \* StreamTransmitter.stage
    close,      \* StreamTransmitter.close
    data_pos,   \* how many bytes StreamTransmitter.data has yielded
    chunk_n,    \* the const parameter N of StreamTransmitter
    chunks,     \* what the calls of StreamTransmitter::next returned, in order
    frame_buffer,  \* FrameBuffer.buffer
    frames_added,  \* the frames the capture callback has added, in order
    frames_taken,  \* what the calls of take_frame returned, in order
    sample_buffer, \* SampleBuffer.buffer
    written,    \* the samples handed to add_sample / add_samples, in order
    played,     \* the samples the playback callback has put in a device buffer
    device,     \* the device buffer of the current or the last playback callback
    cb,         \* the playback callback: its position, count and what it saw
    channels,   \* AudioSpec.channels of the player
    profile,    \* the Profile a transmitter or receiver is built with
    built,      \* what has been constructed with the profile
    reference,  \* the resolver of __resolver.rs, fed the same windows as resolver
    ref_output, \* the output of the last resolve call of the reference resolver
    gain,       \* the gain applied to the stream, in percent
    search,     \* whether the last add_samples call searched for the start marker, and the result
    sizing,     \* a sample rate and the pulse durations, with the sizes computed from them
    pcm         \* a bit depth and a build, with the full-scale magnitudes computed for them

rvars == <<resolver, output, mags, call, prevcall>>
txvars == <<data, tx_samples, pos>>
rxvars == <<buffer, bits, start_idx, start_signal, delivered, panicked>>
livevars == <<stream, fed, log>>
stxvars == <<stage, close, data_pos, chunk_n, chunks>>
fifovars == <<frame_buffer, frames_added, frames_taken>>
playvars == <<sample_buffer, written, played, device, cb, channels>>
profvars == <<profile, built>>
ghostvars == <<reference, ref_output, gain, search>>
numvars == <<sizing, pcm>>
auxvars == <<stxvars, fifovars, playvars, profvars, ghostvars, numvars>>
vars == <<resolver, output, mags, call, prevcall, data, tx_samples, pos,
          buffer, bits, start_idx, start_signal, delivered, panicked, stream, fed, log,
          stage, close, data_pos, chunk_n, chunks, frame_buffer, frames_added,
          frames_taken, sample_buffer, written, played, device, cb, channels,
          profile, built, reference, ref_output, gain, search, sizing, pcm>>

----------------------------------------------------------------------------
(* Magnitudes in dB.  f32 values are represented by integers; NegInf is    *)
(* the value 20*log10(0) of a zero-magnitude bin.                          *)

DB_THRESHOLD == 8

NegInf == 0 - 1000

\* Magnitudes a window is drawn from: silence, the lower edge of the threshold
\* band and a value above the band for the marker tones; silence, both edges
\* of the band and a value above it for the two bit tones.
MarkerMagValues == {NegInf, 0 - DB_THRESHOLD, DB_THRESHOLD + 1}

BitMagValues == {NegInf, 0 - DB_THRESHOLD, DB_THRESHOLD, DB_THRESHOLD + 1}

RxMagnitudes(s, e, n, h, l) ==
    [start |-> s, end |-> e, next |-> n, high |-> h, low |-> l, threshold |-> DB_THRESHOLD]

NoMagnitudes == RxMagnitudes(NegInf, NegInf, NegInf, NegInf, NegInf)

prominent_bit_or_equal(m) == IF m.high >= m.low THEN 1 ELSE 0

prominent_bit(m) == IF m.high > m.low THEN 1 ELSE 0

prominent_bit_magnitude_smaller(m) == IF prominent_bit(m) = 1 THEN m.low ELSE m.high

prominent_bit_magnitude(m) == IF prominent_bit(m) = 1 THEN m.high ELSE m.low

within_threshold_upper_only(m, value) == value <= m.threshold

\* RxMagnitudes::within_threshold
within_threshold(m, value) == value >= 0 - m.threshold /\ value <= m.threshold

state_within_threshold_unset_matches(state, m) ==
    CASE state = "Start" -> within_threshold(m, m.start)
      [] state = "End"   -> within_threshold(m, m.end)
      [] state = "Next"  -> within_threshold(m, m.next)
      [] state = "Bit"   -> within_threshold(m, prominent_bit_magnitude(m))
      [] OTHER           -> TRUE

\* RxState::within_threshold
state_within_threshold(state, m) ==
    CASE state = "Start" -> within_threshold(m, m.start)
      [] state = "End"   -> within_threshold(m, m.end)
      [] state = "Next"  -> within_threshold(m, m.next)
      [] state = "Bit"   -> within_threshold(m, prominent_bit_magnitude(m))
      [] OTHER           -> FALSE

is_start_or_bit(state) == state = "Start" \/ state = "Bit"

----------------------------------------------------------------------------
(* RxResolver *)

RxStates == {"Start", "End", "Next", "Bit", "Unset"}

selection(marker) == marker[1]
expectation(marker) == marker[2]

NewResolver == [c_marker |-> <<"Unset", "Start">>, e_marker |-> <<"Unset", "Unset">>]

Out(k, b) == [kind |-> k, bit |-> b]
Undefined == Out("Undefined", 0)

\* returns the marker after the transition and the flag
evaluate_expectation_select_next(c, m) ==
    LET exp == expectation(c) IN
    IF state_within_threshold(exp, m)
    THEN [c |-> IF is_start_or_bit(exp) THEN <<exp, "Next">>
                ELSE IF exp = "Next" /\ is_start_or_bit(selection(c))
                     THEN <<"Next", "Bit">>
                     ELSE c,
          ret |-> TRUE]
    ELSE [c |-> c, ret |-> FALSE]

evaluate_expectation(c, m) ==
    LET exp == expectation(c) IN
    IF state_within_threshold(exp, m)
    THEN [c |-> IF is_start_or_bit(exp) THEN <<exp, "Next">>
                ELSE IF exp = "Next" /\ is_start_or_bit(selection(c))
                     THEN <<selection(c), "Bit">>
                     ELSE c,
          ret |-> TRUE]
    ELSE [c |-> c, ret |-> FALSE]

evaluate_end(c, e, m) ==
    IF expectation(c) = "Bit" /\ selection(c) = "Bit" /\ state_within_threshold("End", m)
    THEN [e |-> <<"End", "Next">>, ret |-> TRUE]
    ELSE [e |-> e, ret |-> FALSE]

resolve_end_keep_marker(e, m, initial_expectation, has_end) ==
    IF ~has_end /\ ~initial_expectation /\ state_within_threshold(expectation(e), m)
    THEN [e |-> e, out |-> "End"]
    ELSE [e |-> e,
          out |-> IF ~initial_expectation /\ ~has_end THEN "Error" ELSE "None"]

resolve_end_error_on_flag(e, m, initial_expectation, has_end) ==
    IF ~has_end /\ ~initial_expectation /\ state_within_threshold(expectation(e), m)
    THEN [e |-> e, out |-> "End"]
    ELSE [e |-> IF ~has_end THEN <<"Unset", "Unset">> ELSE e,
          out |-> IF ~initial_expectation THEN "Error" ELSE "None"]

resolve_end(e, m, initial_expectation, has_end) ==
    IF ~has_end /\ ~initial_expectation /\ state_within_threshold(expectation(e), m)
    THEN [e |-> e, out |-> "End"]
    ELSE [e |-> IF ~has_end THEN <<"Unset", "Unset">> ELSE e,
          out |-> IF ~initial_expectation /\ ~has_end THEN "Error" ELSE "None"]

resolve_expectation_any_match(c, m, initial_expectation) ==
    IF initial_expectation /\ selection(c) = "Bit"
    THEN Out("Bit", prominent_bit(m))
    ELSE Undefined

resolve_expectation(c, m, initial_expectation) ==
    IF initial_expectation /\ selection(c) = "Bit" /\ expectation(c) = "Next"
    THEN Out("Bit", prominent_bit(m))
    ELSE Undefined

\* RxResolver::resolve: the resolver after the call, the output and the two flags
resolve(r, m) ==
    LET ev  == evaluate_expectation(r.c_marker, m)
        en  == evaluate_end(ev.c, r.e_marker, m)
        re  == resolve_end(en.e, m, ev.ret, en.ret)
        r2  == [c_marker |-> ev.c, e_marker |-> re.e]
    IN  [r |-> r2,
         out |-> IF re.out # "None" THEN Out(re.out, 0)
                 ELSE resolve_expectation(ev.c, m, ev.ret),
         initial_expectation |-> ev.ret,
         has_end |-> en.ret]

reset_keep_end_marker(r) == [c_marker |-> <<"Unset", "Start">>, e_marker |-> r.e_marker]

reset_keep_current_marker(r) == [c_marker |-> r.c_marker, e_marker |-> <<"Unset", "Unset">>]

reset(r) == [c_marker |-> <<"Unset", "Start">>, e_marker |-> <<"Unset", "Unset">>]

----------------------------------------------------------------------------
(* Profile and pulse sizes.  A sample is represented by the tone it belongs *)
(* to ("sil" for the zero-frequency gap); amplitudes and fades are not      *)
(* represented.                                                             *)

SampleRate == 2000

PULSE_LENGTH_US == 1000
PULSE_GAP_US == 2000

MARKER_TONE_START == 7000

Tones == {"start", "end", "next", "high", "low"}

\* PulseDuration::sample_size and ToneGenerator's sample count
sample_size(duration) == (SampleRate * duration) \div 1000000

tone_size == sample_size(PULSE_LENGTH_US)
gap_size == sample_size(PULSE_GAP_US)

Rep(x, n) == [i \in 1..n |-> x]

append_tone(samples, frequency, duration) ==
    samples \o Rep(frequency, sample_size(duration))

append_sine_faded_tone(samples, frequency, duration) ==
    samples \o Rep(frequency, sample_size(duration))

----------------------------------------------------------------------------
(* Transmitter *)

append_pulse(tone, frequency) ==
    append_tone(append_sine_faded_tone(tone, frequency, PULSE_LENGTH_US), "sil", PULSE_GAP_US)

append_start(tone) == append_pulse(tone, "start")
append_end(tone) == append_pulse(tone, "end")
append_next(tone) == append_pulse(tone, "next")

append_silence(tone) == append_tone(tone, "sil", PULSE_GAP_US * 4)

from_boolean(bit) == IF bit THEN "high" ELSE "low"

append_bit(tone, bit) == append_pulse(tone, from_boolean(bit))

\* (byte & (1 << i)) != 0
bit_of_lsb_first(byte, i) == (byte \div (2 ^ (7 - i))) % 2 # 0

bit_of(byte, i) == (byte \div (2 ^ i)) % 2 # 0

RECURSIVE append_bits_from(_, _)
\* what the iterations i, i-1, .., 0 of the loop of append_byte append: the
\* pulse of bit i and a next pulse, then the rest
append_bits_from(byte, i) ==
    IF i < 0 THEN <<>>
    ELSE append_next(append_bit(<<>>, bit_of(byte, i))) \o append_bits_from(byte, i - 1)

append_byte(tone, byte) == tone \o append_bits_from(byte, 7)

RECURSIVE append_bytes(_, _)
\* the loop of create over the bytes, in order
append_bytes(tone, bytes) ==
    IF bytes = <<>> THEN tone
    ELSE append_bytes(append_byte(tone, Head(bytes)), Tail(bytes))

\* Transmitter::create
create(bytes) ==
    LET t1 == append_next(append_start(append_silence(<<>>)))
        t2 == append_bytes(t1, bytes)
    IN  append_silence(append_next(append_end(t2)))

----------------------------------------------------------------------------
(* Spectral analysis of a window.  The magnitude of a tone is 0 dB when the *)
(* whole window carries it, falls with the part of the window that does     *)
(* not, and is -inf when no sample of the window carries it.                *)

Count(w, f) == Cardinality({i \in 1..Len(w) : w[i] = f})

get_magnitude(w, f) ==
    LET c == Count(w, f) IN
    IF c = 0 THEN NegInf ELSE 0 - 6 * (tone_size - c)

get_magnitudes(w) ==
    RxMagnitudes(get_magnitude(w, "start"), get_magnitude(w, "end"), get_magnitude(w, "next"),
                 get_magnitude(w, "high"), get_magnitude(w, "low"))

----------------------------------------------------------------------------
(* utils: bits to bytes to string *)

Min(a, b) == IF a < b THEN a ELSE b

RECURSIVE chunk_byte_lsb_first(_, _)
chunk_byte_lsb_first(chunk, k) ==
    IF k >= Len(chunk) THEN 0
    ELSE (IF chunk[k + 1] = 1 THEN 2 ^ k ELSE 0) + chunk_byte_lsb_first(chunk, k + 1)

RECURSIVE chunk_byte(_, _)
\* the byte of one chunk: bit at index k of the chunk sets 1 << (7 - k)
chunk_byte(chunk, k) ==
    IF k >= Len(chunk) THEN 0
    ELSE (IF chunk[k + 1] = 1 THEN 2 ^ (7 - k) ELSE 0) + chunk_byte(chunk, k + 1)

RECURSIVE bits_to_bytes(_)
\* one byte per chunk of bits.chunks(8); the last chunk may be shorter
bits_to_bytes(bs) ==
    IF bs = <<>> THEN <<>>
    ELSE LET n == Min(8, Len(bs)) IN
         <<chunk_byte(SubSeq(bs, 1, n), 0)>> \o bits_to_bytes(SubSeq(bs, n + 1, Len(bs)))

IsCont(b) == b >= 128 /\ b <= 191

RECURSIVE valid_utf8_from(_, _)
\* the bytes after the first i form well-formed UTF-8 sequences
valid_utf8_from(bytes, i) ==
    IF i >= Len(bytes) THEN TRUE
    ELSE IF bytes[i + 1] <= 127 THEN valid_utf8_from(bytes, i + 1)
    ELSE IF bytes[i + 1] >= 194 /\ bytes[i + 1] <= 223
         THEN /\ Len(bytes) >= i + 2
              /\ IsCont(bytes[i + 2])
              /\ valid_utf8_from(bytes, i + 2)
    ELSE IF bytes[i + 1] >= 224 /\ bytes[i + 1] <= 239
         THEN /\ Len(bytes) >= i + 3
              /\ IsCont(bytes[i + 2]) /\ IsCont(bytes[i + 3])
              /\ (bytes[i + 1] = 224 => bytes[i + 2] >= 160)
              /\ (bytes[i + 1] = 237 => bytes[i + 2] <= 159)
              /\ valid_utf8_from(bytes, i + 3)
    ELSE IF bytes[i + 1] >= 240 /\ bytes[i + 1] <= 244
         THEN /\ Len(bytes) >= i + 4
              /\ IsCont(bytes[i + 2]) /\ IsCont(bytes[i + 3]) /\ IsCont(bytes[i + 4])
              /\ (bytes[i + 1] = 240 => bytes[i + 2] >= 144)
              /\ (bytes[i + 1] = 244 => bytes[i + 2] <= 143)
              /\ valid_utf8_from(bytes, i + 4)
    ELSE FALSE

\* String::from_utf8 succeeds
valid_utf8(bytes) == valid_utf8_from(bytes, 0)

----------------------------------------------------------------------------
(* LiveReceiver.  Its state is handled as a record rx with the fields       *)
(* buffer, bits, resolver, start_idx, start_signal, delivered, panicked.    *)

NoneIdx == 0 - 1

NewReceiver ==
    [buffer |-> <<>>, bits |-> <<>>, resolver |-> NewResolver, start_idx |-> NoneIdx,
     start_signal |-> FALSE, delivered |-> <<>>, panicked |-> FALSE]

drain_buffer_to_starting_index_clear(buf, idx) == <<>>

drain_buffer_to_starting_index(buf, idx) ==
    IF idx < Len(buf) THEN SubSeq(buf, idx + 1, Len(buf)) ELSE <<>>

\* the drain index that refresh_buffer computes, as a mathematical integer: a
\* negative value stands for the usize subtraction that underflows
refresh_index(rx) ==
    IF rx.start_idx # NoneIdx THEN rx.start_idx ELSE Len(rx.buffer) - tone_size * 8

refresh_buffer_keep_all(rx) == rx.buffer

\* without a start index the drain index is len - 8 * sample_size, which
\* wraps past the end of the buffer when the buffer is shorter
refresh_buffer(rx) ==
    IF rx.start_idx # NoneIdx
    THEN drain_buffer_to_starting_index(rx.buffer, rx.start_idx)
    ELSE IF Len(rx.buffer) >= tone_size * 8
         THEN drain_buffer_to_starting_index(rx.buffer, Len(rx.buffer) - tone_size * 8)
         ELSE <<>>

refresh_all_states(rx) ==
    [rx EXCEPT !.buffer = refresh_buffer(rx), !.bits = <<>>, !.resolver = reset(rx.resolver),
               !.start_idx = NoneIdx, !.start_signal = FALSE]

handle_rx_output_reset_without_output(rx, out) ==
    CASE out.kind = "Bit"   -> [rx EXCEPT !.bits = Append(rx.bits, out.bit)]
      [] out.kind = "End"   ->
            IF valid_utf8(bits_to_bytes(rx.bits))
            THEN refresh_all_states([rx EXCEPT !.delivered = Append(rx.delivered, bits_to_bytes(rx.bits))])
            ELSE [rx EXCEPT !.panicked = TRUE]
      [] OTHER              -> refresh_all_states(rx)

handle_rx_output(rx, out) ==
    CASE out.kind = "Bit"   -> [rx EXCEPT !.bits = Append(rx.bits, out.bit)]
      [] out.kind = "End"   ->
            IF valid_utf8(bits_to_bytes(rx.bits))
            THEN refresh_all_states([rx EXCEPT !.delivered = Append(rx.delivered, bits_to_bytes(rx.bits))])
            ELSE [rx EXCEPT !.panicked = TRUE]
      [] out.kind = "Error" -> refresh_all_states(rx)
      [] OTHER              -> rx

get_owned_samples_chunk_whole_tail(samples, idx) ==
    SubSeq(samples, idx + 1, Len(samples))

\* the window of sample_size samples at idx, its end clamped to the buffer
get_owned_samples_chunk(samples, idx) ==
    SubSeq(samples, idx + 1, Min(idx + tone_size, Len(samples)))

----------------------------------------------------------------------------
(* The components outside the protocol engine, as they are after           *)
(* construction: the streaming transmitter, the two FIFO buffers, the      *)
(* playback callback and the profile.                                      *)

MARKER_TONE_END == 9000
MARKER_TONE_NEXT == 3000
BIT_TONE_HIGH == 5000
BIT_TONE_LOW == 1000

\* the profile of the constants
DefaultProfile ==
    [start |-> MARKER_TONE_START, end |-> MARKER_TONE_END, next |-> MARKER_TONE_NEXT,
     high |-> BIT_TONE_HIGH, low |-> BIT_TONE_LOW]

\* the playback callback is not running
CbIdle == [pc |-> "idle", count |-> 0, entry |-> <<>>, empty_seen |-> FALSE]

StreamIdle ==
    stage = "Start" /\ close = FALSE /\ data_pos = 0 /\ chunk_n = 1 /\ chunks = <<>>

FifoIdle == frame_buffer = <<>> /\ frames_added = <<>> /\ frames_taken = <<>>

PlayerIdle ==
    /\ sample_buffer = <<>> /\ written = <<>> /\ played = <<>>
    /\ device = <<>> /\ cb = CbIdle /\ channels = 1

ProfileIdle == profile = DefaultProfile /\ built = {}

\* the last add_samples call ran no search
NoSearch == "none"

GhostIdle ==
    /\ reference = [c_marker |-> <<"Unset", "Start">>, e_marker |-> <<"Unset", "Unset">>]
    /\ ref_output = Undefined
    /\ gain = 100
    /\ search = NoSearch

\* nothing has been computed for a sample rate or a bit depth
NoSizing ==
    [sample_rate |-> 0, tone_us |-> 0, gap_us |-> 0, rx |-> FALSE, tone_size |-> 0,
     gap_size |-> 0, tx |-> FALSE, pulse |-> 0]

NoMagnitude == [by |-> "none", panicked |-> FALSE, overflowed |-> FALSE, positive |-> 0, negative |-> 0]

NoQuotient == [done |-> FALSE, panicked |-> FALSE, num |-> 0, den |-> 1]

NoPcm == [bps |-> 0, build |-> "none", sample |-> 0, magnitude |-> NoMagnitude, norm |-> NoQuotient]

NumIdle == sizing = NoSizing /\ pcm = NoPcm

AuxIdle == StreamIdle /\ FifoIdle /\ PlayerIdle /\ ProfileIdle /\ GhostIdle /\ NumIdle

----------------------------------------------------------------------------
(* The resolver driven by arbitrary windows.  A caller resets the resolver *)
(* after End or Error before it resolves again.                            *)

Call(op, pre, fi, fe) == [op |-> op, pre |-> pre, initial_expectation |-> fi, has_end |-> fe]

NoCall == Call("new", NewResolver, FALSE, FALSE)

\* what is remembered of the call before the last one: its kind, whether it
\* flagged a tentative end, and whether its window had the end tone in band
Brief(c, m) ==
    [op |-> c.op, has_end |-> c.has_end,
     end_in |-> m.end >= 0 - DB_THRESHOLD /\ m.end <= DB_THRESHOLD]

Terminal(o) == o.kind \in {"End", "Error"}

Init ==
    /\ resolver = NewResolver
    /\ output = Undefined
    /\ mags = NoMagnitudes
    /\ call = NoCall
    /\ prevcall = Brief(NoCall, NoMagnitudes)
    /\ data = <<>>
    /\ tx_samples = <<>>
    /\ pos = 0
    /\ buffer = <<>>
    /\ bits = <<>>
    /\ start_idx = NoneIdx
    /\ start_signal = FALSE
    /\ delivered = <<>>
    /\ panicked = FALSE
    /\ stream = <<>>
    /\ fed = 0
    /\ log = <<>>
    /\ AuxIdle

Windows ==
    {RxMagnitudes(s, e, n, h, l) : s \in MarkerMagValues, e \in MarkerMagValues,
                                   n \in MarkerMagValues, h \in BitMagValues, l \in BitMagValues}

Resolve(m) ==
    /\ ~Terminal(output)
    /\ LET res == resolve(resolver, m) IN
        /\ resolver' = res.r
        /\ output' = res.out
        /\ call' = Call("resolve", resolver, res.initial_expectation, res.has_end)
    /\ mags' = m
    /\ prevcall' = Brief(call, mags)
    /\ UNCHANGED <<txvars, rxvars, livevars, auxvars>>

Reset ==
    /\ resolver' = reset(resolver)
    /\ call' = Call(IF Terminal(output) THEN "reset_terminal" ELSE "reset", resolver, FALSE, FALSE)
    /\ prevcall' = Brief(call, mags)
    /\ output' = Undefined
    /\ mags' = NoMagnitudes
    /\ UNCHANGED <<txvars, rxvars, livevars, auxvars>>

Next ==
    \/ \E m \in Windows : Resolve(m)
    \/ Reset

Spec == Init /\ [][Next]_vars

InBand(x) == x >= 0 - DB_THRESHOLD /\ x <= DB_THRESHOLD

Larger(a, b) == IF a >= b THEN a ELSE b

\* the magnitude the current expectation of resolver state r looks at in window m
ExpectedMagnitude(r, m) ==
    CASE r.c_marker[2] = "Start" -> m.start
      [] r.c_marker[2] = "Next"  -> m.next
      [] r.c_marker[2] = "Bit"   -> Larger(m.high, m.low)
      [] r.c_marker[2] = "End"   -> m.end
      [] OTHER                   -> NegInf

Resolved == call.op = "resolve"

\* C4: a resolve call returns Bit exactly when the expectation before the call
\* was Bit and the larger of the high and low magnitudes is in [-T, T]; the
\* call then leaves the current marker at (Bit, Next).
C4_BitOutput ==
    Resolved =>
        /\ output.kind = "Bit" <=>
              (call.pre.c_marker[2] = "Bit" /\ InBand(Larger(mags.high, mags.low)))
        /\ output.kind = "Bit" => resolver.c_marker = <<"Bit", "Next">>

C4_Witness == Resolved /\ output.kind = "Bit" /\ Larger(mags.high, mags.low) = DB_THRESHOLD

\* C13: the bit of a Bit output is 1 exactly when the high-tone magnitude of
\* the window is strictly greater than the low-tone magnitude; with equal
\* magnitudes the bit is 0.
C13_ProminentBit ==
    (Resolved /\ output.kind = "Bit") =>
        /\ output.bit = 1 <=> mags.high > mags.low
        /\ mags.high = mags.low => output.bit = 0

C13_Witness == Resolved /\ output.kind = "Bit" /\ mags.high = mags.low /\ output.bit = 0

\* C5: End is returned only for the window right after a window that flagged a
\* tentative end (current marker (Bit, Bit), end tone in band), and only if in
\* this window the next tone is in band, the expectation is not satisfied and
\* no new tentative end is flagged; after a call that does not return End the
\* end marker is set exactly if that call flagged a tentative end itself.
C5_EndTwoWindows ==
    Resolved =>
        /\ output.kind = "End" =>
              /\ prevcall.op = "resolve" /\ prevcall.has_end /\ prevcall.end_in
              /\ call.pre.c_marker = <<"Bit", "Bit">>
              /\ call.pre.e_marker = <<"End", "Next">>
              /\ InBand(mags.next)
              /\ ~InBand(ExpectedMagnitude(call.pre, mags))
              /\ ~InBand(mags.end)
              /\ ~call.has_end
        /\ output.kind # "End" =>
              resolver.e_marker = IF call.has_end THEN <<"End", "Next">> ELSE <<"Unset", "Unset">>
        /\ (prevcall.op = "resolve" /\ prevcall.has_end /\ output.kind # "End" /\ ~call.has_end)
              => resolver.e_marker = <<"Unset", "Unset">>

C5_Witness == Resolved /\ output.kind = "End"

\* C6: a resolve call returns Error exactly when the magnitude of the current
\* expectation is out of band, the call flags no tentative end and it does not
\* return End; a call that returns none of Bit, End, Error returns Undefined.
C6_ErrorOutput ==
    Resolved =>
        /\ output.kind = "Error" <=>
              /\ ~InBand(ExpectedMagnitude(call.pre, mags))
              /\ ~(resolver.c_marker = <<"Bit", "Bit">> /\ InBand(mags.end))
              /\ output.kind # "End"
        /\ output.kind \in {"Bit", "End", "Error", "Undefined"}

C6_Witness == Resolved /\ output.kind = "Error" /\ call.pre.c_marker = <<"Bit", "Bit">>

\* C9: a new resolver has the current marker (Unset, Start) and the end marker
\* (Unset, Unset), and reset() restores exactly that state.
C9_ResetState ==
    call.op \in {"new", "reset", "reset_terminal"} =>
        resolver = [c_marker |-> <<"Unset", "Start">>, e_marker |-> <<"Unset", "Unset">>]

C9_Witness ==
    /\ call.op = "reset_terminal"
    /\ call.pre = [c_marker |-> <<"Bit", "Bit">>, e_marker |-> <<"End", "Next">>]
    /\ resolver = [c_marker |-> <<"Unset", "Start">>, e_marker |-> <<"Unset", "Unset">>]

\* C10: after End or Error and reset(), a first window with the start tone in
\* band leaves the resolver in the state, and with the output, that a new
\* resolver has after that window: current marker (Start, Next), no output.
C10_Terminality ==
    (Resolved /\ prevcall.op = "reset_terminal" /\ InBand(mags.start)) =>
        /\ resolver = resolve(NewResolver, mags).r
        /\ output = resolve(NewResolver, mags).out
        /\ resolver = [c_marker |-> <<"Start", "Next">>, e_marker |-> <<"Unset", "Unset">>]
        /\ output.kind = "Undefined"

C10_Witness ==
    Resolved /\ prevcall.op = "reset_terminal" /\ InBand(mags.start) /\ InBand(mags.next)
        /\ resolver.c_marker = <<"Start", "Next">>

\* all five magnitudes of window m lie outside [-T, T]
AllOutOfBand(m) ==
    ~InBand(m.start) /\ ~InBand(m.end) /\ ~InBand(m.next) /\ ~InBand(m.high) /\ ~InBand(m.low)

\* C22: in every reachable resolver state a window whose five magnitudes all
\* lie outside [-T, T] (the magnitude of a silent bin included) satisfies no
\* expectation: the call returns neither Bit nor End, flags nothing, and
\* leaves the current marker as it was.
C22_OutOfBandWindow ==
    (Resolved /\ AllOutOfBand(mags)) =>
        /\ output.kind \notin {"Bit", "End"}
        /\ ~call.initial_expectation /\ ~call.has_end
        /\ resolver.c_marker = call.pre.c_marker

C22_Witness ==
    /\ Resolved /\ AllOutOfBand(mags)
    /\ mags.start = NegInf /\ mags.high = DB_THRESHOLD + 1
    /\ call.pre = [c_marker |-> <<"Bit", "Bit">>, e_marker |-> <<"End", "Next">>]
    /\ output.kind = "Error"

\* C23: while the expectation of the end marker is Unset, resolve does not
\* return End whatever the window; a new or reset resolver returns neither
\* End nor Bit for its first window.
C23_UnsetNeverMatches ==
    Resolved =>
        /\ expectation(call.pre.e_marker) = "Unset" => output.kind # "End"
        /\ call.pre = NewResolver => output.kind \notin {"End", "Bit"}

C23_Witness ==
    /\ Resolved /\ prevcall.op = "reset_terminal" /\ call.pre = NewResolver
    /\ InBand(mags.next) /\ InBand(mags.end) /\ ~InBand(mags.start)
    /\ output.kind = "Error"

\* the pairs (selection, expectation) that the current marker and the end
\* marker take
CurrentMarkers ==
    {<<"Unset", "Start">>, <<"Start", "Next">>, <<"Start", "Bit">>, <<"Bit", "Next">>, <<"Bit", "Bit">>}

EndMarkers == {<<"Unset", "Unset">>, <<"End", "Next">>}

\* C36: in every reachable resolver state the current marker is one of
\* (Unset, Start), (Start, Next), (Start, Bit), (Bit, Next), (Bit, Bit) and
\* the end marker is (Unset, Unset) or (End, Next).
C36_MarkerStates ==
    /\ resolver.c_marker \in CurrentMarkers
    /\ resolver.e_marker \in EndMarkers

C36_Witness ==
    /\ Resolved /\ resolver = [c_marker |-> <<"Bit", "Bit">>, e_marker |-> <<"End", "Next">>]
    /\ call.pre.c_marker = <<"Bit", "Bit">>

\* C35: no two consecutive windows both yield Bit, and between two Bit
\* outputs there is a window in which the next tone was within threshold and
\* was accepted as the spacer: a window that follows a Bit output does not
\* yield Bit, a window yields Bit only when the resolver expected a bit, and
\* the resolver comes to expect a bit only by a window that matches the
\* expected next tone.
C35_SpacerBetweenBits ==
    [][/\ output.kind = "Bit" => output'.kind # "Bit"
       /\ output'.kind = "Bit" => expectation(resolver.c_marker) = "Bit"
       /\ (expectation(resolver'.c_marker) = "Bit" /\ expectation(resolver.c_marker) # "Bit") =>
            /\ expectation(resolver.c_marker) = "Next"
            /\ InBand(mags'.next)
            /\ call'.initial_expectation]_vars

C35_Witness ==
    /\ Resolved /\ output.kind = "Bit" /\ call.pre.c_marker = <<"Bit", "Bit">>
    /\ resolver.c_marker = <<"Bit", "Next">> /\ InBand(mags.next)

----------------------------------------------------------------------------
(* The resolver of __resolver.rs, which evaluates the tentative end on the *)
(* current marker as it is before the window and transitions the current   *)
(* expectation last.  Its Option markers are written with "Unset" for None *)
(* and its output None is written Undefined.                               *)

\* RxResolver::set_expectation of the reference resolver
reference_set_expectation(c) ==
    IF is_start_or_bit(expectation(c)) THEN <<expectation(c), "Next">>
    ELSE IF expectation(c) = "Next" /\ is_start_or_bit(selection(c))
         THEN <<selection(c), "Bit">>
         ELSE c

\* RxResolver::resolve_end of the reference resolver: the end marker after the
\* call and whether End is returned
reference_resolve_end(e, m, end_evaluation, evaluation) ==
    IF ~end_evaluation /\ expectation(e) # "Unset"
    THEN IF state_within_threshold(expectation(e), m) /\ ~evaluation
         THEN [e |-> e, out |-> "End"]
         ELSE [e |-> <<"Unset", "Unset">>, out |-> "None"]
    ELSE [e |-> e, out |-> "None"]

\* RxResolver::resolve of the reference resolver
reference_resolve(r, m) ==
    LET evaluation == state_within_threshold(expectation(r.c_marker), m)
        en == evaluate_end(r.c_marker, r.e_marker, m)
        re == reference_resolve_end(en.e, m, en.ret, evaluation)
        c2 == reference_set_expectation(r.c_marker)
    IN  IF re.out = "End"
        THEN [r |-> [c_marker |-> r.c_marker, e_marker |-> re.e], out |-> Out("End", 0)]
        ELSE IF evaluation
             THEN [r |-> [c_marker |-> c2, e_marker |-> re.e],
                   out |-> IF expectation(c2) = "Next" /\ selection(c2) = "Bit"
                           THEN Out("Bit", prominent_bit(m))
                           ELSE Undefined]
             ELSE [r |-> [c_marker |-> r.c_marker, e_marker |-> re.e],
                   out |-> IF ~en.ret THEN Out("Error", 0) ELSE Undefined]

\* both resolvers are handed the same windows; the caller resets both after a
\* terminal output
OrderInit ==
    /\ Init

OrderResolve(m) ==
    /\ ~Terminal(output) /\ ~Terminal(ref_output)
    /\ output = ref_output
    /\ LET res == resolve(resolver, m)
           ref == reference_resolve(reference, m)
       IN  /\ resolver' = res.r
           /\ output' = res.out
           /\ call' = Call("resolve", resolver, res.initial_expectation, res.has_end)
           /\ reference' = ref.r
           /\ ref_output' = ref.out
    /\ mags' = m
    /\ prevcall' = Brief(call, mags)
    /\ UNCHANGED <<txvars, rxvars, livevars, stxvars, fifovars, numvars, playvars, profvars, gain, search>>

OrderReset ==
    /\ Terminal(output) /\ output = ref_output
    /\ resolver' = reset(resolver)
    /\ reference' = reset(reference)
    /\ output' = Undefined
    /\ ref_output' = Undefined
    /\ call' = Call("reset_terminal", resolver, FALSE, FALSE)
    /\ prevcall' = Brief(call, mags)
    /\ mags' = NoMagnitudes
    /\ UNCHANGED <<txvars, rxvars, livevars, stxvars, fifovars, numvars, playvars, profvars, gain, search>>

OrderNext ==
    \/ \E m \in Windows : OrderResolve(m)
    \/ OrderReset

SpecOrder == OrderInit /\ [][OrderNext]_vars

\* C25: for every sequence of windows the output of RxResolver::resolve equals
\* the output of the reference resolver, which evaluates the tentative end on
\* the current marker as it was before the window and transitions the current
\* expectation afterwards.
C25_StepOrder == output = ref_output

----------------------------------------------------------------------------
(* One frame without a channel: the transmitter renders the payload and    *)
(* the receiver is handed the frame's pulses in order, one window per       *)
(* pulse, starting at the start pulse.                                      *)

MaxLen == 2

Bytes == 0..255

SampleBytes == {0, 65, 169, 195, 255}

Payloads ==
    {<<>>} \cup {<<b>> : b \in Bytes} \cup UNION {[1..n -> SampleBytes] : n \in 2..MaxLen}

stride == tone_size + gap_size

silence_size == sample_size(PULSE_GAP_US * 4)

\* number of pulses between the leading and the trailing silence
pulse_count(samples) == (Len(samples) - 2 * silence_size) \div stride

\* index in the samples of the k-th pulse, k from 0
pulse_idx(k) == silence_size + k * stride

RxRec ==
    [buffer |-> buffer, bits |-> bits, resolver |-> resolver, start_idx |-> start_idx,
     start_signal |-> start_signal, delivered |-> delivered, panicked |-> panicked]

SetRx(rx) ==
    /\ buffer' = rx.buffer
    /\ bits' = rx.bits
    /\ resolver' = rx.resolver
    /\ start_idx' = rx.start_idx
    /\ start_signal' = rx.start_signal
    /\ delivered' = rx.delivered
    /\ panicked' = rx.panicked

receive_window_drop_index(rx, idx, w) ==
    LET res == resolve(rx.resolver, get_magnitudes(w))
        rx1 == handle_rx_output([rx EXCEPT !.resolver = res.r], res.out)
    IN  [rx |-> [rx1 EXCEPT !.start_idx = NoneIdx], res |-> res]

receive_window_same_index(rx, idx, w) ==
    LET res == resolve(rx.resolver, get_magnitudes(w))
        rx1 == handle_rx_output([rx EXCEPT !.resolver = res.r], res.out)
    IN  [rx |-> IF rx1.panicked THEN rx1 ELSE [rx1 EXCEPT !.start_idx = idx], res |-> res]

\* one pass of the loop body of add_samples on the window at idx: resolve the
\* window, handle the output, advance the start index
receive_window(rx, idx, w) ==
    LET res == resolve(rx.resolver, get_magnitudes(w))
        rx1 == handle_rx_output([rx EXCEPT !.resolver = res.r], res.out)
    IN  [rx |-> IF rx1.panicked THEN rx1 ELSE [rx1 EXCEPT !.start_idx = idx + stride],
         res |-> res]

FrameInit ==
    /\ data \in Payloads
    /\ tx_samples = <<>>
    /\ pos = 0
    /\ resolver = NewResolver
    /\ output = Undefined
    /\ mags = NoMagnitudes
    /\ call = NoCall
    /\ prevcall = Brief(NoCall, NoMagnitudes)
    /\ buffer = <<>>
    /\ bits = <<>>
    /\ start_idx = NoneIdx
    /\ start_signal = FALSE
    /\ delivered = <<>>
    /\ panicked = FALSE
    /\ stream = <<>>
    /\ fed = 0
    /\ log = <<>>
    /\ AuxIdle

\* the transmitter renders the frame; the receiver holds it with the start
\* pulse located
TxCreate ==
    /\ tx_samples = <<>>
    /\ tx_samples' = create(data)
    /\ buffer' = create(data)
    /\ start_idx' = pulse_idx(0)
    /\ start_signal' = TRUE
    /\ UNCHANGED <<data, pos, rvars, bits, delivered, panicked, livevars, auxvars>>

RxPulse ==
    /\ tx_samples # <<>>
    /\ pos < pulse_count(tx_samples)
    /\ ~panicked
    /\ LET idx == pulse_idx(pos)
           w   == SubSeq(tx_samples, idx + 1, idx + tone_size)
           r   == receive_window(RxRec, idx, w)
       IN  /\ SetRx(r.rx)
           /\ output' = r.res.out
           /\ mags' = get_magnitudes(w)
           /\ call' = Call("resolve", resolver, r.res.initial_expectation, r.res.has_end)
           /\ prevcall' = Brief(call, mags)
    /\ pos' = pos + 1
    /\ UNCHANGED <<data, tx_samples, livevars, auxvars>>

FrameNext == TxCreate \/ RxPulse

SpecFrame == FrameInit /\ [][FrameNext]_vars

FrameDone == tx_samples # <<>> /\ pos = pulse_count(tx_samples)

\* C1: when all pulses of the frame of a non-empty payload have been presented,
\* the last output is End and exactly the payload has been delivered.
C1_RoundTrip ==
    (FrameDone /\ Len(data) >= 1) => (output.kind = "End" /\ delivered = <<data>>)

\* C2: when the four pulses of the frame of the empty payload have been
\* presented, the last output is End and the empty byte sequence was delivered.
C2_EmptyPayload ==
    (FrameDone /\ data = <<>>) => (output.kind = "End" /\ delivered = << <<>> >>)

\* expected tone of the k-th pulse (k from 0) of the frame of payload d
FrameTone(d, k) ==
    IF k = 0 THEN "start"
    ELSE IF k = 2 + 16 * Len(d) THEN "end"
    ELSE IF k % 2 = 1 THEN "next"
    ELSE LET q == (k - 2) \div 2 IN
         IF (d[(q \div 8) + 1] \div (2 ^ (7 - (q % 8)))) % 2 = 1 THEN "high" ELSE "low"

\* C3: the frame is 4 gaps of silence, then 4 + 16n pulses (start, next, per
\* byte and per bit from the most significant a bit pulse and a next pulse,
\* end, next), each a tone followed by a gap, then 4 gaps of silence.
C3_FrameFormat ==
    tx_samples # <<>> =>
        LET n == 4 + 16 * Len(data) IN
        /\ Len(tx_samples) = 4 * gap_size + n * (tone_size + gap_size) + 4 * gap_size
        /\ \A i \in 1..(4 * gap_size) :
              tx_samples[i] = "sil" /\ tx_samples[Len(tx_samples) + 1 - i] = "sil"
        /\ \A k \in 0..(n - 1) :
              LET base == 4 * gap_size + k * (tone_size + gap_size) IN
              /\ \A i \in 1..tone_size : tx_samples[base + i] = FrameTone(data, k)
              /\ \A i \in 1..gap_size : tx_samples[base + tone_size + i] = "sil"

C3_Witness == tx_samples # <<>> /\ data = <<65, 195>>

----------------------------------------------------------------------------
(* The live receiver fed a stream in chunks.                                *)

max_consecutive_fails == 5
skip_cycles == 8

\* ceil(cycles / frequency * sample_rate)
get_minimum_chunk_size(frequency, cycles) ==
    (cycles * SampleRate + frequency - 1) \div frequency

get_start_magnitude(w) == get_magnitude(w, "start")

RECURSIVE search_from(_, _, _, _, _)
\* the loop of find_starting_index from candidate idx on; best_idx is NoneIdx
\* while there is no best candidate.  Besides current_best_idx the result
\* tells whether update_starting_index_search terminated the loop and, if so,
\* at which candidate, and whether any window handed to get_start_magnitude
\* was shorter than sample_size.
search_from(buf, idx, best_idx, best_mag, fails) ==
    IF ~(idx < Len(buf) - tone_size)
    THEN [best |-> best_idx, last |-> NoneIdx, terminate |-> FALSE, short |-> FALSE]
    ELSE LET w == get_owned_samples_chunk(buf, idx)
             sm == get_start_magnitude(w)
             rest ==
                IF best_idx # NoneIdx
                THEN IF sm >= best_mag /\ sm <= DB_THRESHOLD
                     THEN search_from(buf, idx + 1, idx, sm, 0)
                     ELSE IF fails = max_consecutive_fails
                          THEN [best |-> best_idx, last |-> idx, terminate |-> TRUE, short |-> FALSE]
                          ELSE search_from(buf, idx + 1, best_idx, best_mag, fails + 1)
                ELSE IF sm >= 0 - DB_THRESHOLD /\ sm <= DB_THRESHOLD
                     THEN search_from(buf, idx + 1, idx, sm, fails)
                     ELSE search_from(buf, idx + get_minimum_chunk_size(MARKER_TONE_START, skip_cycles),
                                      best_idx, best_mag, fails)
         IN  [rest EXCEPT !.short = rest.short \/ Len(w) # tone_size]

find_starting_index(buf) == search_from(buf, 0, NoneIdx, NegInf, 0).best

RECURSIVE receive_loop(_, _, _)
\* the while loop of add_samples from the local start index idx on; lg is the
\* sequence of resolver outputs so far
receive_loop(rx, idx, lg) ==
    IF rx.panicked \/ ~(idx + tone_size < Len(rx.buffer)) THEN [rx |-> rx, log |-> lg]
    ELSE LET r == receive_window(rx, idx, get_owned_samples_chunk(rx.buffer, idx)) IN
         receive_loop(r.rx, idx + stride, Append(lg, r.res.out.kind))

RECURSIVE passed_windows(_, _, _)
\* the windows that the while loop of add_samples passes to the resolver from
\* the local start index idx on, each with the index it has in the buffer as
\* it was when the loop began (drained counts the samples that resets have
\* removed since) and with the kind of the resolver's output
passed_windows(rx, idx, drained) ==
    IF rx.panicked \/ ~(idx + tone_size < Len(rx.buffer)) THEN <<>>
    ELSE LET r == receive_window(rx, idx, get_owned_samples_chunk(rx.buffer, idx)) IN
         <<[at |-> drained + idx, size |-> Len(get_owned_samples_chunk(rx.buffer, idx)),
            out |-> r.res.out.kind, bit |-> r.res.out.bit, resolver |-> r.res.r]>>
         \o passed_windows(r.rx, idx + stride, drained + (Len(rx.buffer) - Len(r.rx.buffer)))

\* LiveReceiver::add_samples
add_samples(rx, chunk) ==
    LET rx1 == [rx EXCEPT !.buffer = rx.buffer \o chunk] IN
    IF rx1.start_idx # NoneIdx /\ rx1.start_signal
    THEN LET r == receive_loop(rx1, rx1.start_idx, <<>>) IN
         [rx |-> r.rx, log |-> r.log, search |-> NoSearch]
    ELSE IF Len(rx1.buffer) >= tone_size * 8
         THEN LET found == find_starting_index(rx1.buffer) IN
              IF found # NoneIdx
              THEN [rx |-> [rx1 EXCEPT !.start_idx = found, !.start_signal = TRUE],
                    log |-> <<>>, search |-> "found"]
              ELSE [rx |-> refresh_all_states(rx1), log |-> <<>>, search |-> "failed"]
         ELSE [rx |-> rx1, log |-> <<>>, search |-> NoSearch]

\* the level, in percent of full scale, of a sample of amplitude 1.0 and the
\* min_floor 0.1 that add_samples and get_owned_samples_chunk pass to
\* re_normalize
FullScale == 100

min_floor == 10

Infinity == 1000000

Gains == {20, 50, 100, 200, 500}

\* the samples of a chunk with their levels after a gain of g percent: the
\* transmitter's tone samples have full scale, the gaps are zero
amplify(chunk, g) ==
    [i \in 1..Len(chunk) |->
        [tone |-> chunk[i], level |-> IF chunk[i] = "sil" THEN 0 ELSE (FullScale * g) \div 100]]

\* Normalizer::find_max_magnitudes, the positive peak (the negative peak is
\* handled in the same way and is not represented)
find_max_magnitudes(samples) ==
    IF samples = <<>> THEN 0
    ELSE CHOOSE x \in {samples[i].level : i \in 1..Len(samples)} :
            \A i \in 1..Len(samples) : samples[i].level <= x

clamp_max_magnitudes(positive, p_min) == IF positive < p_min THEN Infinity ELSE positive

normalized(samples, positive) ==
    [i \in 1..Len(samples) |->
        [tone |-> samples[i].tone, level |-> (samples[i].level * FullScale) \div positive]]

re_normalize_high_floor(samples) ==
    LET positive == clamp_max_magnitudes(find_max_magnitudes(samples), 3 * min_floor) IN
    normalized(samples, positive)

\* Normalizer::re_normalize with min_floor 0.1: the samples are divided by
\* their peak, or by infinity when the peak is below the floor
re_normalize(samples) ==
    LET positive == clamp_max_magnitudes(find_max_magnitudes(samples), min_floor) IN
    normalized(samples, positive)

\* the chunk as add_samples appends it to the buffer: a sample normalised to
\* zero is a silent sample, every other sample carries its tone
re_normalize_samples_chunk(chunk, g) ==
    LET a == amplify(chunk, g)
        n == re_normalize(a)
    IN
    [i \in 1..Len(chunk) |-> IF n[i].level = 0 THEN "sil" ELSE n[i].tone]

MaxChunk == 3

LargeChunk == 6 * stride

ChunkSizes == (1..MaxChunk) \cup {LargeChunk}

LivePayloads == {<<>>, <<65>>}

MaxCorrupt == 4

\* the samples with the tone of the k-th pulse replaced by tone f
Corrupt(samples, k, f) ==
    [i \in 1..Len(samples) |->
        IF i > pulse_idx(k) /\ i <= pulse_idx(k) + tone_size THEN f ELSE samples[i]]

LiveStreams ==
    {create(d) : d \in LivePayloads}
    \cup {Corrupt(create(d), k, f) : d \in LivePayloads, k \in 0..MaxCorrupt, f \in {"sil", "end"}}

LiveInit ==
    /\ stream \in LiveStreams
    /\ fed = 0
    /\ log = <<>>
    /\ data = <<>>
    /\ tx_samples = <<>>
    /\ pos = 0
    /\ resolver = NewResolver
    /\ output = Undefined
    /\ mags = NoMagnitudes
    /\ call = NoCall
    /\ prevcall = Brief(NoCall, NoMagnitudes)
    /\ buffer = <<>>
    /\ bits = <<>>
    /\ start_idx = NoneIdx
    /\ start_signal = FALSE
    /\ delivered = <<>>
    /\ panicked = FALSE
    /\ AuxIdle

AddSamples(n) ==
    /\ ~panicked
    /\ fed < Len(stream)
    /\ LET m == Min(n, Len(stream) - fed)
           r == add_samples(RxRec, re_normalize_samples_chunk(SubSeq(stream, fed + 1, fed + m), gain))
       IN  /\ SetRx(r.rx)
           /\ log' = r.log
           /\ search' = r.search
           /\ fed' = fed + m
    /\ UNCHANGED <<stream, output, mags, call, prevcall, txvars, stxvars, fifovars, numvars, playvars,
                   profvars, reference, ref_output, gain>>

LiveNext == \E n \in ChunkSizes : AddSamples(n)

SpecLive == LiveInit /\ [][LiveNext]_vars

\* C7: when the resolver has returned End during an add_samples call, then at
\* the return of that call the bits are empty, the resolver is in its initial
\* state and start_idx is None.
C7_EndResetsAll ==
    (\E i \in 1..Len(log) : log[i] = "End" /\ ~panicked) =>
        /\ bits = <<>>
        /\ resolver = [c_marker |-> <<"Unset", "Start">>, e_marker |-> <<"Unset", "Unset">>]
        /\ start_idx = NoneIdx

\* C8: within an add_samples call no window is passed to the resolver after the
\* resolver has returned Error.
C8_ErrorStopsResolving ==
    \A i \in 1..Len(log) : log[i] = "Error" => i = Len(log)

\* the last add_samples call ran the receiving loop and left the receiver in
\* the receiving state
Receiving == fed > 0 /\ search = "none" /\ start_signal /\ start_idx # NoneIdx /\ ~panicked

\* C28: with start_idx set, the window at start_idx is analysed as soon as
\* the buffer holds start_idx + tone_size samples: when add_samples returns
\* from the receiving loop, the buffer holds fewer than start_idx + tone_size
\* samples, so that no complete window is left unanalysed.
C28_WindowAnalysedWhenComplete ==
    Receiving => Len(buffer) < start_idx + tone_size

\* the search that the last add_samples call ran with success, on the buffer
\* it left unchanged
LastSearch == search_from(buffer, 0, NoneIdx, NegInf, 0)

\* C29: a search that is terminated by its consecutive fails fixes start_idx
\* to the best candidate and has examined exactly max_consecutive_fails
\* candidates after it: the last candidate examined is the fifth after the
\* best one.
C29_SearchStopsAtFifthFail ==
    (search = "found" /\ LastSearch.terminate) =>
        /\ start_idx = LastSearch.best
        /\ LastSearch.last = LastSearch.best + max_consecutive_fails

\* the receiver as add_samples has it after appending the chunk of the step
Appended ==
    [RxRec EXCEPT !.buffer = buffer \o re_normalize_samples_chunk(SubSeq(stream, fed + 1, fed'), gain)]

\* the stream index of the first sample of the buffer, and of the window at
\* start_idx
BufferBase == fed - Len(buffer)

NextWindow == BufferBase + start_idx

\* the windows that the add_samples call of the step passes to the resolver,
\* rx being the receiver with the chunk appended
Passed(rx) ==
    IF start_idx # NoneIdx /\ start_signal THEN passed_windows(rx, start_idx, 0) ELSE <<>>

\* the windows of the frame in progress among them: those up to the first
\* End or Error
OfFrame(w) ==
    LET ends == {i \in 1..Len(w) : w[i].out \in {"End", "Error"}} IN
    IF ends = {} THEN w
    ELSE SubSeq(w, 1, CHOOSE i \in ends : \A j \in ends : i <= j)

FrameGoesOn(w) == w = <<>> \/ w[Len(w)].out \notin {"End", "Error"}

\* C32: within a frame the windows passed to the resolver start exactly
\* tone_size + gap_size samples apart in the stream, the first at the index
\* that the search fixed, and each window is passed once: the call that
\* finds the start leaves the next window at the candidate found and passes
\* none; every later call passes the windows at NextWindow,
\* NextWindow + stride, ... and, while the frame goes on, leaves the next
\* window one stride after the last window passed.
C32_WindowStride ==
    [][\A rx \in {Appended} : \A p \in {Passed(rx)} : \A w \in {OfFrame(p)} :
       /\ search' = "found" =>
            /\ w = <<>>
            /\ NextWindow' = (fed' - Len(buffer')) + find_starting_index(buffer')
       /\ \A i \in 1..Len(w) : BufferBase + w[i].at = NextWindow + (i - 1) * stride
       /\ (start_idx # NoneIdx /\ start_signal /\ FrameGoesOn(w) /\ ~panicked') =>
            NextWindow' = NextWindow + Len(w) * stride]_vars

C32_Witness ==
    /\ Receiving /\ BufferBase > 0 /\ Len(log) >= 2 /\ Len(bits) >= 2
    /\ \A i \in 1..Len(log) : log[i] \notin {"End", "Error"}

\* C37: every window the receiver hands to the analyzer holds exactly
\* tone_size samples, which also means that the window lies inside the
\* buffer: the windows of the receiving loop, also those that follow a reset
\* and a drain within the same call, and the windows of the search.
C37_WholeWindows ==
    [][\A rx \in {Appended} :
       /\ \A p \in {Passed(rx)} : \A i \in 1..Len(p) : p[i].size = tone_size
       /\ search' # NoSearch => ~search_from(rx.buffer, 0, NoneIdx, NegInf, 0).short]_vars

C37_Witness ==
    /\ fed > 0 /\ search = NoSearch /\ Len(log) >= 3
    /\ \E i \in 1..(Len(log) - 1) : log[i] \in {"End", "Error"}

\* the bits of the Bit outputs among the windows w, in order
BitsOf(w) ==
    LET b == SelectSeq(w, LAMBDA x : x.out = "Bit") IN [i \in 1..Len(b) |-> b[i].bit]

\* C40: handling a Bit output appends exactly that bit and handling a window
\* without output changes nothing: in an add_samples call whose windows all
\* yield Bit or Undefined the buffer keeps its contents (with the chunk
\* appended), the bits accumulated before are kept and followed by the bits
\* of the Bit outputs in order, the resolver is as the last resolve call left
\* it (not reset), nothing is delivered, and start_idx has advanced by one
\* stride for each window.
C40_BitAndUndefinedEffect ==
    [][\A rx \in {Appended} : \A p \in {Passed(rx)} :
       (p # <<>> /\ \A i \in 1..Len(p) : p[i].out \in {"Bit", "Undefined"}) =>
            /\ buffer' = rx.buffer
            /\ bits' = bits \o BitsOf(p)
            /\ resolver' = p[Len(p)].resolver
            /\ resolver' # NewResolver
            /\ delivered' = delivered
            /\ start_signal' /\ ~panicked'
            /\ start_idx' = start_idx + Len(p) * stride]_vars

C40_Witness ==
    /\ Receiving /\ Len(log) >= 3 /\ Len(bits) >= 2
    /\ \A i \in 1..Len(log) : log[i] \in {"Bit", "Undefined"}
    /\ \E i \in 1..Len(log) : log[i] = "Bit"
    /\ \E i \in 1..Len(log) : log[i] = "Undefined"

\* the last n samples that have been fed
LastFed(n) == SubSeq(stream, fed - n + 1, fed)

\* C30: after a search that established no candidate the buffer consists of
\* exactly the last 8 * tone_size samples it held, which are the last samples
\* fed, and start_idx is None; also when the search follows an earlier decoded
\* or failed frame.
C30_FailedSearchKeepsTail ==
    search = "failed" =>
        /\ start_idx = NoneIdx
        /\ buffer = LastFed(8 * tone_size)

----------------------------------------------------------------------------
(* The conversion of bits to bytes on its own: any accumulated bits, or    *)
(* the bits of the pulses append_byte renders for a byte.                  *)

ResolverIdle ==
    /\ resolver = NewResolver /\ output = Undefined /\ mags = NoMagnitudes
    /\ call = NoCall /\ prevcall = Brief(NoCall, NoMagnitudes)

ReceiverIdle ==
    /\ buffer = <<>> /\ start_idx = NoneIdx /\ start_signal = FALSE /\ panicked = FALSE
    /\ stream = <<>> /\ fed = 0 /\ log = <<>>

MaxBits == 9

BitSeqs == UNION {[1..n -> {0, 1}] : n \in 0..MaxBits}

\* the bits carried by rendered bit pulses, each followed by a next pulse
emitted_bits(samples) ==
    [k \in 1..(Len(samples) \div (2 * stride)) |->
        IF samples[2 * (k - 1) * stride + 1] = "high" THEN 1 ELSE 0]

BitsInit ==
    /\ bits \in BitSeqs
    /\ data = <<>>
    /\ tx_samples = <<>>
    /\ pos = 0
    /\ delivered = <<>>
    /\ ResolverIdle
    /\ ReceiverIdle
    /\ AuxIdle

\* the transmitter renders one byte; the bits of its pulses are accumulated
AppendByte(byte) ==
    /\ data = <<>>
    /\ bits = <<>>
    /\ delivered = <<>>
    /\ data' = <<byte>>
    /\ tx_samples' = append_byte(<<>>, byte)
    /\ bits' = emitted_bits(append_byte(<<>>, byte))
    /\ UNCHANGED <<pos, rvars, buffer, start_idx, start_signal, delivered, panicked,
                   livevars, auxvars>>

\* the accumulated bits are converted to bytes
BitsToBytes ==
    /\ delivered = <<>>
    /\ delivered' = <<bits_to_bytes(bits)>>
    /\ UNCHANGED <<txvars, rvars, buffer, bits, start_idx, start_signal, panicked,
                   livevars, auxvars>>

BitsNext == (\E byte \in Bytes : AppendByte(byte)) \/ BitsToBytes

SpecBits == BitsInit /\ [][BitsNext]_vars

\* C11: the bytes made of the accumulated bits are the full groups of 8 bits,
\* most significant bit first; a trailing group of fewer than 8 bits gives no
\* byte, so there are floor(number of bits / 8) bytes.
C11_FullGroupsOnly ==
    delivered # <<>> =>
        /\ Len(delivered[1]) = Len(bits) \div 8
        /\ \A g \in 1..Len(delivered[1]) :
              delivered[1][g] = chunk_byte(SubSeq(bits, 8 * g - 7, 8 * g), 0)

\* C12: the 8 bits the transmitter renders for a byte b, converted back with
\* bits_to_bytes, give exactly the one byte b.
C12_BitByteLaw ==
    (delivered # <<>> /\ data # <<>>) => (Len(bits) = 8 /\ delivered[1] = data)

C12_Witness == delivered = <<data>> /\ data = <<169>>

----------------------------------------------------------------------------
(* The live receiver when the input pauses inside a frame.                 *)

IsPrefix(a, b) == Len(a) <= Len(b) /\ a = SubSeq(b, 1, Len(a))

\* the stream is the unaltered frame of the one-byte payload 65
CleanStream == stream = create(<<65>>)

\* C14: when the input stops inside a frame, nothing is emitted and nothing is
\* reset: the bits so far, the resolver and start_idx are kept, and feeding the
\* rest of the frame in later add_samples calls completes the decode.
C14_EndOfStreamRetained ==
    CleanStream =>
        /\ ~panicked
        /\ delivered = <<>> =>
              /\ \A i \in 1..Len(log) : log[i] \notin {"End", "Error"}
              /\ IsPrefix(bits, emitted_bits(append_byte(<<>>, 65)))
              /\ start_signal => start_idx # NoneIdx
              /\ bits # <<>> => start_signal
        /\ delivered # <<>> => delivered = << <<65>> >>
        /\ fed = Len(stream) => delivered = << <<65>> >>

C14_Witness ==
    CleanStream /\ delivered = << <<65>> >> /\ Len(log) = 1 /\ log[1] = "End"

----------------------------------------------------------------------------
(* StreamTransmitter: an iterator over the rendered frame.  Each call of   *)
(* next runs its loop, which makes up to N passes, and returns what the    *)
(* tone generator holds.                                                   *)

MaxN == 4

\* next is not called more often than this
MaxCalls == MaxLen + 8

\* the value of a call that returns None
None == <<"None">>

StxRec(tone) == [stage |-> stage, data_pos |-> data_pos, close |-> close, tone |-> tone]

stream_step_stay_open(st, d) ==
    CASE st.stage = "Start" ->
            [st EXCEPT !.tone = append_next(append_start(append_silence(st.tone))),
                       !.stage = "Data"]
      [] st.stage = "Data" ->
            IF st.data_pos < Len(d)
            THEN [st EXCEPT !.tone = append_byte(st.tone, d[st.data_pos + 1]),
                            !.data_pos = st.data_pos + 1]
            ELSE [st EXCEPT !.stage = "End"]
      [] OTHER ->
            [st EXCEPT !.tone = append_silence(append_next(append_end(st.tone)))]

stream_step_end_without_next(st, d) ==
    CASE st.stage = "Start" ->
            [st EXCEPT !.tone = append_next(append_start(append_silence(st.tone))),
                       !.stage = "Data"]
      [] st.stage = "Data" ->
            IF st.data_pos < Len(d)
            THEN [st EXCEPT !.tone = append_byte(st.tone, d[st.data_pos + 1]),
                            !.data_pos = st.data_pos + 1]
            ELSE [st EXCEPT !.stage = "End"]
      [] OTHER ->
            [st EXCEPT !.tone = append_silence(append_end(st.tone)),
                       !.close = TRUE]

\* one pass of the loop of next
stream_step(st, d) ==
    CASE st.stage = "Start" ->
            [st EXCEPT !.tone = append_next(append_start(append_silence(st.tone))),
                       !.stage = "Data"]
      [] st.stage = "Data" ->
            IF st.data_pos < Len(d)
            THEN [st EXCEPT !.tone = append_byte(st.tone, d[st.data_pos + 1]),
                            !.data_pos = st.data_pos + 1]
            ELSE [st EXCEPT !.stage = "End"]
      [] OTHER ->
            [st EXCEPT !.tone = append_silence(append_next(append_end(st.tone))),
                       !.close = TRUE]

RECURSIVE stream_loop(_, _, _)
\* the loop for _ in 0..N with k passes left; the End stage breaks out of it
stream_loop(st, d, k) ==
    IF k = 0 \/ st.close THEN st ELSE stream_loop(stream_step(st, d), d, k - 1)

\* one payload of each length up to MaxLen
StreamPayloads == {[i \in 1..n |-> IF i % 2 = 1 THEN 65 ELSE 195] : n \in 0..MaxLen}

StreamInit ==
    /\ data \in StreamPayloads
    /\ chunk_n \in 1..MaxN
    /\ stage = "Start"
    /\ close = FALSE
    /\ data_pos = 0
    /\ chunks = <<>>
    /\ tx_samples = <<>>
    /\ pos = 0
    /\ bits = <<>>
    /\ delivered = <<>>
    /\ ResolverIdle
    /\ ReceiverIdle
    /\ GhostIdle
    /\ FifoIdle
    /\ NumIdle
    /\ PlayerIdle
    /\ ProfileIdle

\* StreamTransmitter::next; take_samples leaves the tone generator empty
StreamNext ==
    /\ Len(chunks) < MaxCalls
    /\ IF close
       THEN /\ chunks' = Append(chunks, None)
            /\ UNCHANGED <<stage, close, data_pos>>
       ELSE LET st == stream_loop(StxRec(<<>>), data, chunk_n) IN
            /\ stage' = st.stage
            /\ close' = st.close
            /\ data_pos' = st.data_pos
            /\ chunks' = Append(chunks, st.tone)
    /\ UNCHANGED <<chunk_n, txvars, rvars, rxvars, livevars, fifovars, numvars, playvars, ghostvars, profvars>>

SpecStream == StreamInit /\ [][StreamNext]_vars

\* the same, with next called again and again
SpecStreamFair == SpecStream /\ WF_vars(StreamNext)

\* the chunk ends with the end pulse, a next pulse and the trailing silence
ClosesFrame(c) ==
    LET t == append_silence(append_next(append_end(<<>>))) IN
    c # None /\ Len(c) >= Len(t) /\ SubSeq(c, Len(c) - Len(t) + 1, Len(c)) = t

\* C15: every chunk the iterator yields has exactly N samples, except the
\* last one, which has at most N samples.
C15_ChunkSizes ==
    \A i \in 1..Len(chunks) :
        chunks[i] # None =>
            IF ClosesFrame(chunks[i]) THEN Len(chunks[i]) <= chunk_n
            ELSE Len(chunks[i]) = chunk_n

StreamSafe ==
    /\ Cardinality({i \in 1..Len(chunks) : chunks[i] # None}) <= Len(data) + 3
    /\ \A i \in 1..Len(chunks) : \A j \in (i + 1)..Len(chunks) :
          (ClosesFrame(chunks[i]) \/ chunks[i] = None) => chunks[j] = None
    /\ close <=> \E i \in 1..Len(chunks) : ClosesFrame(chunks[i])

RECURSIVE Yielded(_)
\* the concatenation of the chunks that the calls of next have returned
Yielded(cs) ==
    IF cs = <<>> THEN <<>>
    ELSE (IF Head(cs) = None THEN <<>> ELSE Head(cs)) \o Yielded(Tail(cs))

\* C33: the chunks yielded so far, concatenated, are a prefix of the samples
\* that Transmitter::create returns for the payload, and once the iterator
\* has closed they are exactly those samples: the same pulses in the same
\* order.
C33_StreamEqualsCreate ==
    /\ IsPrefix(Yielded(chunks), create(data))
    /\ close => Yielded(chunks) = create(data)

C33_Witness ==
    /\ close /\ Len(data) >= 2 /\ chunk_n = 2 /\ Len(chunks) >= 3
    /\ chunks[Len(chunks)] = None /\ Yielded(chunks) = create(data)

\* C16: for every payload and every N >= 1 the iterator yields finitely many
\* chunks: it reaches the chunk that ends with the trailing silence, and
\* every call after that one returns None.
C16_Exhausted == <>close /\ []StreamSafe

C16_Witness ==
    /\ close /\ Len(data) = MaxLen /\ Len(chunks) >= 2
    /\ chunks[Len(chunks)] = None /\ chunks[Len(chunks) - 1] = None

----------------------------------------------------------------------------
(* FrameBuffer between the capture callback and the receiver.  Each of its *)
(* operations runs under the write lock of the list, so it is one step;    *)
(* the callback and the receiver run in different threads and their steps  *)
(* interleave in any order.                                                *)

MaxFrames == 3
MaxTakes == 4

\* captured frames, told apart by their content
Frames == {1, 2}

\* the value of a take that returns None
NoFrame == 0

\* FrameBuffer::add_frame: push_back
add_frame(list, frame) == Append(list, frame)

take_newest(list) ==
    IF list = <<>> THEN [list |-> list, ret |-> NoFrame]
    ELSE [list |-> SubSeq(list, 1, Len(list) - 1), ret |-> list[Len(list)]]

\* FrameBuffer::take: pop_front
take(list) ==
    IF list = <<>> THEN [list |-> list, ret |-> NoFrame]
    ELSE [list |-> Tail(list), ret |-> Head(list)]

FifoInit ==
    /\ frame_buffer = <<>>
    /\ frames_added = <<>>
    /\ frames_taken = <<>>
    /\ data = <<>>
    /\ tx_samples = <<>>
    /\ pos = 0
    /\ bits = <<>>
    /\ delivered = <<>>
    /\ ResolverIdle
    /\ ReceiverIdle
    /\ GhostIdle
    /\ StreamIdle
    /\ PlayerIdle
    /\ ProfileIdle
    /\ NumIdle

\* the capture callback: the device data becomes one frame of the queue
RecorderCallback(frame) ==
    /\ Len(frames_added) < MaxFrames
    /\ frame_buffer' = add_frame(frame_buffer, frame)
    /\ frames_added' = Append(frames_added, frame)
    /\ UNCHANGED <<frames_taken, txvars, rvars, rxvars, livevars, stxvars, playvars, numvars, ghostvars, profvars>>

\* InputRecorder::take_frame; queued is the length of the queue it found
TakeFrame ==
    /\ Len(frames_taken) < MaxTakes
    /\ frame_buffer' = take(frame_buffer).list
    /\ frames_taken' = Append(frames_taken,
                              [ret |-> take(frame_buffer).ret, queued |-> Len(frame_buffer)])
    /\ UNCHANGED <<frames_added, txvars, rvars, rxvars, livevars, stxvars, playvars, numvars, ghostvars, profvars>>

FifoNext == (\E frame \in Frames : RecorderCallback(frame)) \/ TakeFrame

SpecFifo == FifoInit /\ [][FifoNext]_vars

\* the frames the takes returned, in order
TakenFrames ==
    LET some == SelectSeq(frames_taken, LAMBDA t : t.ret # NoFrame)
    IN  [i \in 1..Len(some) |-> some[i].ret]

\* C17: under every interleaving of add_frame and take, the frames taken so
\* far followed by the frames still queued are the frames added, in the order
\* they were added; a take returns None only when it finds the queue empty.
C17_FrameOrder ==
    /\ TakenFrames \o frame_buffer = frames_added
    /\ \A i \in 1..Len(frames_taken) :
          frames_taken[i].ret = NoFrame <=> frames_taken[i].queued = 0

C17_Witness ==
    /\ frames_added = <<1, 2, 1>>
    /\ Len(frames_taken) = MaxTakes
    /\ frames_taken[2].ret = NoFrame
    /\ frame_buffer = <<>>

----------------------------------------------------------------------------
(* SampleBuffer between the transmitter and the playback callback.  The    *)
(* writer adds samples; the callback of the output stream runs in another  *)
(* thread: it clears the device buffer if it sees a positive value in it,  *)
(* checks that the queue is not empty and then takes sample by sample,     *)
(* each take under its own lock, so that writes interleave with the takes. *)

MaxWritten == 3
DeviceFrames == 1

\* normalised sample values
Samples == {0 - 1, 1}

\* length of the device buffer: frames of two channels
DeviceLen == 2 * DeviceFrames

Zeros == [i \in 1..DeviceLen |-> 0]

\* SampleBuffer::add_sample: push_back
add_sample(list, sample) == Append(list, sample)

RECURSIVE add_samples_reversed(_, _)
add_samples_reversed(list, samples) ==
    IF samples = <<>> THEN list
    ELSE add_samples_reversed(list, Tail(samples)) \o <<Head(samples)>>

\* SampleBuffer::add_samples: push_back of each sample under one lock
push_samples(list, samples) == list \o samples

\* the first lines of the callback: the buffer is cleared if any value in it
\* is greater than 0
clear_if_positive(d) ==
    IF \E i \in 1..Len(d) : d[i] > 0 THEN [i \in 1..Len(d) |-> 0] ELSE d

\* one pass of the loop of append_mono: both entries of a frame take the sample
append_mono(d, count, sample) ==
    [i \in 1..Len(d) |-> IF i = count + 1 \/ i = count + 2 THEN sample ELSE d[i]]

\* one pass of the loop of append_stereo
append_stereo(d, count, sample) ==
    [i \in 1..Len(d) |-> IF i = count + 1 THEN sample ELSE d[i]]

PlayerInit ==
    /\ sample_buffer = <<>>
    /\ written = <<>>
    /\ played = <<>>
    /\ device = Zeros
    /\ cb = CbIdle
    /\ channels \in {1, 2}
    /\ data = <<>>
    /\ tx_samples = <<>>
    /\ pos = 0
    /\ bits = <<>>
    /\ delivered = <<>>
    /\ ResolverIdle
    /\ ReceiverIdle
    /\ GhostIdle
    /\ StreamIdle
    /\ FifoIdle
    /\ NumIdle
    /\ ProfileIdle

\* OutputPlayer::add_sample
AddSample(sample) ==
    /\ Len(written) < MaxWritten
    /\ sample_buffer' = add_sample(sample_buffer, sample)
    /\ written' = Append(written, sample)
    /\ UNCHANGED <<played, device, cb, channels>>
    /\ UNCHANGED <<txvars, rvars, rxvars, livevars, stxvars, fifovars, numvars, ghostvars, profvars>>

\* OutputPlayer::add_samples with a chunk of two samples
AddChunk(chunk) ==
    /\ Len(written) + Len(chunk) <= MaxWritten
    /\ sample_buffer' = push_samples(sample_buffer, chunk)
    /\ written' = written \o chunk
    /\ UNCHANGED <<played, device, cb, channels>>
    /\ UNCHANGED <<txvars, rvars, rxvars, livevars, stxvars, fifovars, numvars, ghostvars, profvars>>

\* the callback starts on a device buffer that is zero or still holds what
\* the previous callback left in it
CallbackEnter(entry) ==
    /\ cb.pc = "idle"
    /\ device' = clear_if_positive(entry)
    /\ cb' = [pc |-> IF sample_buffer # <<>> /\ channels \in {1, 2} THEN "fill" ELSE "idle", count |-> 0,
              entry |-> entry, empty_seen |-> sample_buffer = <<>>]
    /\ UNCHANGED <<sample_buffer, written, played, channels>>
    /\ UNCHANGED <<txvars, rvars, rxvars, livevars, stxvars, fifovars, numvars, ghostvars, profvars>>

\* one pass of the loop of append_mono / append_stereo
CallbackTake ==
    /\ cb.pc = "fill"
    /\ IF cb.count < Len(device) /\ sample_buffer # <<>>
       THEN /\ sample_buffer' = take(sample_buffer).list
            /\ played' = Append(played, take(sample_buffer).ret)
            /\ device' = IF channels = 1
                         THEN append_mono(device, cb.count, take(sample_buffer).ret)
                         ELSE append_stereo(device, cb.count, take(sample_buffer).ret)
            /\ cb' = [cb EXCEPT !.count = cb.count + (IF channels = 1 THEN 2 ELSE 1)]
       ELSE /\ cb' = [cb EXCEPT !.pc = "idle"]
            /\ UNCHANGED <<sample_buffer, played, device>>
    /\ UNCHANGED <<written, channels>>
    /\ UNCHANGED <<txvars, rvars, rxvars, livevars, stxvars, fifovars, numvars, ghostvars, profvars>>

PlayerNext ==
    \/ \E sample \in Samples : AddSample(sample)
    \/ \E chunk \in [1..2 -> Samples] : AddChunk(chunk)
    \/ \E entry \in {Zeros, device} : CallbackEnter(entry)
    \/ CallbackTake

SpecPlayer == PlayerInit /\ [][PlayerNext]_vars

\* C18: under every interleaving of the writer and the playback callback the
\* samples put in device buffers so far, followed by the samples still
\* queued, are the samples written, in the order they were written (so a
\* chunk stays contiguous and nothing is dropped).
C18_SampleOrder == played \o sample_buffer = written

C18_Witness ==
    /\ written = <<1, 0 - 1, 0 - 1>>
    /\ played = written
    /\ cb.pc = "idle"

\* C19: when a callback has found the queue empty, the device buffer it
\* leaves is all zero whatever it held on entry, and the part of a device
\* buffer that was not filled from the queue is zero.
C19_SilenceWhenEmpty ==
    (cb.pc = "idle" /\ cb.entry # <<>>) =>
        /\ cb.empty_seen => device = Zeros
        /\ \A i \in 1..Len(device) : i > cb.count => device[i] = 0

----------------------------------------------------------------------------
(* OutputPlayer::wait: samples are queued, no more are added, and the      *)
(* playback callback is invoked again and again.                           *)

\* channel counts of the audio spec: mono, stereo and one more
ChannelCounts == {1, 2, 4}

\* the samples queued by add_samples before wait is called
Queued == UNION {[1..n -> Samples] : n \in 1..MaxWritten}

WaitInit ==
    /\ sample_buffer \in Queued
    /\ written = sample_buffer
    /\ played = <<>>
    /\ device = Zeros
    /\ cb = CbIdle
    /\ channels \in ChannelCounts
    /\ data = <<>>
    /\ tx_samples = <<>>
    /\ pos = 0
    /\ bits = <<>>
    /\ delivered = <<>>
    /\ ResolverIdle
    /\ ReceiverIdle
    /\ GhostIdle
    /\ StreamIdle
    /\ FifoIdle
    /\ NumIdle
    /\ ProfileIdle

WaitNext ==
    \/ \E entry \in {Zeros, device} : CallbackEnter(entry)
    \/ CallbackTake

\* the callback keeps being invoked and each invocation runs to its end
SpecWait == WaitInit /\ [][WaitNext]_vars /\ WF_vars(WaitNext)

\* the loop of wait ends when buffer_empty returns true
wait_returns == sample_buffer = <<>>

\* C34: after samples are queued wait eventually returns, as long as the
\* callback keeps being invoked and no samples are added, for every channel
\* count of the audio spec.
C34_WaitReturns == <>wait_returns

----------------------------------------------------------------------------
(* Construction of a transmitter and of a live receiver with a profile,    *)
(* and their use.                                                          *)

LP_FILTER == 18000
HP_FILTER == 200

\* Profile::min_frequency_separation: sample_rate / (sample_rate * tone_micros / 1e6)
min_frequency_separation == 1000000 \div PULSE_LENGTH_US

\* frequencies for the two bit tones: the cutoffs, the values of the constants,
\* and values closer to another tone than the separation
BitToneValues == {HP_FILTER, BIT_TONE_LOW, 4500, BIT_TONE_HIGH, 6500, LP_FILTER}

Profiles == {[DefaultProfile EXCEPT !.high = h, !.low = l] : h \in BitToneValues, l \in BitToneValues}

ProfileInit ==
    /\ profile \in Profiles
    /\ built = {}
    /\ data = <<65>>
    /\ tx_samples = <<>>
    /\ pos = 0
    /\ bits = <<>>
    /\ delivered = <<>>
    /\ ResolverIdle
    /\ ReceiverIdle
    /\ GhostIdle
    /\ StreamIdle
    /\ FifoIdle
    /\ NumIdle
    /\ PlayerIdle

\* Transmitter::new: the profile and the spec are copied
TransmitterNew ==
    /\ "transmitter" \notin built
    /\ built' = built \cup {"transmitter"}
    /\ UNCHANGED <<profile, txvars, rvars, rxvars, livevars, stxvars, fifovars, numvars, playvars, ghostvars>>

\* LiveReceiver::new: the profile is stored, the state is the initial one
LiveReceiverNew ==
    /\ "receiver" \notin built
    /\ built' = built \cup {"receiver"}
    /\ SetRx(NewReceiver)
    /\ UNCHANGED <<profile, txvars, rvars, livevars, stxvars, fifovars, numvars, playvars, ghostvars>>

\* the transmitter encodes the payload
ProfileCreate ==
    /\ "transmitter" \in built
    /\ tx_samples = <<>>
    /\ tx_samples' = create(data)
    /\ UNCHANGED <<profile, built, data, pos, rvars, rxvars, livevars, stxvars, fifovars, numvars,
                   playvars, ghostvars>>

\* the receiver is given the encoded samples
ProfileReceive ==
    /\ "receiver" \in built
    /\ tx_samples # <<>>
    /\ fed = 0
    /\ SetRx(add_samples(RxRec, tx_samples).rx)
    /\ log' = add_samples(RxRec, tx_samples).log
    /\ fed' = Len(tx_samples)
    /\ UNCHANGED <<profile, built, txvars, rvars, stream, stxvars, fifovars, numvars, playvars, ghostvars>>

ProfileNext == TransmitterNew \/ LiveReceiverNew \/ ProfileCreate \/ ProfileReceive

SpecProfile == ProfileInit /\ [][ProfileNext]_vars

ToneNames == {"start", "end", "next", "high", "low"}

Distance(a, b) == IF a >= b THEN a - b ELSE b - a

\* no tone on a filter cutoff or outside the pass band, and no two tones
\* closer than the bin width
ValidProfile(p) ==
    /\ \A t \in ToneNames : p[t] > HP_FILTER /\ p[t] < LP_FILTER
    /\ \A t, u \in ToneNames : t # u => Distance(p[t], p[u]) >= min_frequency_separation

\* C20: a transmitter or a receiver is built only with a valid profile, and
\* nothing is encoded or decoded with an invalid one.
C20_ConfigChecked ==
    (built # {} \/ tx_samples # <<>> \/ fed > 0) => ValidProfile(profile)

----------------------------------------------------------------------------
(* The live receiver on a frame with silence before and after it.          *)

MaxPad == 3

\* a pad longer than the 8 * tone_size samples a failed search keeps
LongPad == 8 * tone_size + stride + 1

Pads == (0..MaxPad) \cup {LongPad}

\* the state of a new receiver that is going to be fed samples at gain g
LiveStart(samples, payload, g) ==
    /\ stream = samples
    /\ fed = 0
    /\ log = <<>>
    /\ data = payload
    /\ tx_samples = <<>>
    /\ pos = 0
    /\ ResolverIdle
    /\ buffer = <<>>
    /\ bits = <<>>
    /\ start_idx = NoneIdx
    /\ start_signal = FALSE
    /\ delivered = <<>>
    /\ panicked = FALSE
    /\ StreamIdle /\ FifoIdle /\ PlayerIdle /\ ProfileIdle /\ NumIdle
    /\ reference = NewResolver
    /\ ref_output = Undefined
    /\ gain = g
    /\ search = NoSearch

SilenceInit ==
    \E a \in Pads, b \in {0, LongPad} :
        LiveStart(Rep("sil", a) \o create(<<65>>) \o Rep("sil", b), <<65>>, 100)

SpecSilence == SilenceInit /\ [][LiveNext]_vars

\* number of silent samples at the head of the stream
RECURSIVE LeadingSilence(_)
LeadingSilence(samples) ==
    IF samples = <<>> \/ Head(samples) # "sil" THEN 0 ELSE 1 + LeadingSilence(Tail(samples))

----------------------------------------------------------------------------
(* The live receiver on a frame whose samples are multiplied by a gain.    *)

GainInit == \E g \in Gains : LiveStart(create(<<65>>), <<65>>, g)

SpecGain == GainInit /\ [][LiveNext]_vars

----------------------------------------------------------------------------
(* The live receiver on two frames in a row.  Each frame begins and ends   *)
(* with silence_size silent samples, so the frames are separated by twice  *)
(* that silence.                                                           *)

FirstPayload == <<65>>

SecondPayload == <<66>>

TwoFrames == create(FirstPayload) \o create(SecondPayload)

TwoInit == LiveStart(TwoFrames, FirstPayload \o SecondPayload, 100)

SpecTwo == TwoInit /\ [][LiveNext]_vars

\* C26: of two frames separated by silence both payloads are delivered, in
\* order, whatever the chunks; and whenever the start-marker search has fixed
\* a new start_idx the resolver is in its initial state and no bits are held.
C26_ConsecutiveFrames ==
    /\ ~panicked
    /\ IsPrefix(delivered, <<FirstPayload, SecondPayload>>)
    /\ fed = Len(stream) => delivered = <<FirstPayload, SecondPayload>>
    /\ search = "found" => (resolver = NewResolver /\ bits = <<>>)

----------------------------------------------------------------------------
(* The offline Receiver, which analyses a whole recording at once, against *)
(* the live receiver fed the same recording in chunks.                     *)

\* Receiver::mute_samples_gap: the gap after the window at idx is zeroed
mute_samples_gap(samples, idx) ==
    [i \in 1..Len(samples) |->
        IF i > idx + tone_size /\ i <= Min(idx + stride, Len(samples)) THEN "sil" ELSE samples[i]]

RECURSIVE receive_bits(_, _, _)
\* Receiver::receive_bits from window idx on with resolver state r: the bits
\* pushed and the last output, "None" when no window was analysed
receive_bits(samples, idx, r) ==
    IF ~(idx + tone_size <= Len(samples)) THEN [bits |-> <<>>, last_output |-> "None"]
    ELSE LET res == resolve(r, get_magnitudes(get_owned_samples_chunk(samples, idx)))
             rest == receive_bits(mute_samples_gap(samples, idx), idx + stride, res.r)
         IN  IF Terminal(res.out)
             THEN [bits |-> <<>>, last_output |-> res.out.kind]
             ELSE [bits |-> (IF res.out.kind = "Bit" THEN <<res.out.bit>> ELSE <<>>) \o rest.bits,
                   last_output |-> IF rest.last_output = "None" THEN res.out.kind
                                   ELSE rest.last_output]

\* Option<Vec<u8>>
NoBits == [some |-> FALSE, bits |-> <<>>]

SomeBits(b) == [some |-> TRUE, bits |-> b]

from_file_any_output(samples) ==
    LET idx == find_starting_index(samples) IN
    IF idx = NoneIdx THEN NoBits ELSE SomeBits(receive_bits(samples, idx, NewResolver).bits)

\* Receiver::from_file on the samples of the file: the bits if the analysis
\* ended with End, None otherwise
from_file(samples) ==
    LET idx == find_starting_index(samples) IN
    IF idx = NoneIdx THEN NoBits
    ELSE LET r == receive_bits(samples, idx, NewResolver) IN
         IF r.last_output = "End" THEN SomeBits(r.bits) ELSE NoBits

\* the payloads the test of the offline receiver prints for the stream
OfflineDecoded ==
    LET r == from_file(stream) IN
    IF r.some THEN <<bits_to_bytes(r.bits)>> ELSE <<>>

----------------------------------------------------------------------------
(* The live receiver on idle input: samples without any start tone.        *)

MaxIdle == 9

RECURSIVE pulses(_, _)
\* a train of k pulses of one tone
pulses(frequency, k) ==
    IF k = 0 THEN <<>> ELSE append_pulse(pulses(frequency, k - 1), frequency)

\* silence, pulse trains of the tones other than the start tone, and a frame
\* whose start tone is missing
IdleStreams ==
    {Rep("sil", MaxIdle * stride), Corrupt(create(<<65>>), 0, "sil")}
    \cup {pulses(f, MaxIdle) : f \in Tones \ {"start"}}

IdleInit == \E samples \in IdleStreams : LiveStart(samples, <<>>, 100)

SpecIdle == IdleInit /\ [][LiveNext]_vars

----------------------------------------------------------------------------
(* Pulse sizes in samples, as the receiver and the transmitter compute     *)
(* them from a sample rate and the pulse durations of a profile.           *)

SampleRates == {8000, 22050, 44100, 48000}

DurationsUs == {1, 40, 333, 1000, 2000, 4999}

pulse_sample_size_rounded(sample_rate, duration_us) ==
    (sample_rate * duration_us + 500000) \div 1000000

\* PulseDuration::sample_size::<usize>: sample_rate * as_micros / 1_000_000
\* in usize arithmetic, which these products do not overflow
pulse_sample_size(sample_rate, duration_us) ==
    (sample_rate * duration_us) \div 1000000

\* the number of samples that ToneGenerator::append_tone and
\* append_sine_faded_tone push for a duration in microseconds: one for each
\* idx in 0..(sample_rate * duration) / 1_000_000
tone_sample_count(sample_rate, duration) ==
    Cardinality(0..(((sample_rate * duration) \div 1000000) - 1))

SizesInit ==
    /\ \E sr \in SampleRates, t \in DurationsUs, g \in DurationsUs :
          sizing = [NoSizing EXCEPT !.sample_rate = sr, !.tone_us = t, !.gap_us = g]
    /\ pcm = NoPcm
    /\ data = <<>>
    /\ tx_samples = <<>>
    /\ pos = 0
    /\ bits = <<>>
    /\ delivered = <<>>
    /\ ResolverIdle
    /\ ReceiverIdle
    /\ GhostIdle
    /\ StreamIdle
    /\ FifoIdle
    /\ PlayerIdle
    /\ ProfileIdle

\* LiveReceiver::get_tone_sample_size and get_gap_sample_size
ReceiverSizes ==
    /\ ~sizing.rx
    /\ sizing' = [sizing EXCEPT !.rx = TRUE,
                                !.tone_size = pulse_sample_size(sizing.sample_rate, sizing.tone_us),
                                !.gap_size = pulse_sample_size(sizing.sample_rate, sizing.gap_us)]
    /\ UNCHANGED <<pcm, txvars, rvars, rxvars, livevars, stxvars, fifovars, playvars, profvars,
                   ghostvars>>

\* Transmitter::append_start, append_end, append_next, append_bit: a faded
\* tone of the tone duration followed by a zero tone of the gap duration
TransmitterPulse ==
    /\ ~sizing.tx
    /\ sizing' = [sizing EXCEPT !.tx = TRUE,
                                !.pulse = tone_sample_count(sizing.sample_rate, sizing.tone_us)
                                          + tone_sample_count(sizing.sample_rate, sizing.gap_us)]
    /\ UNCHANGED <<pcm, txvars, rvars, rxvars, livevars, stxvars, fifovars, playvars, profvars,
                   ghostvars>>

SizesNext == ReceiverSizes \/ TransmitterPulse

SpecSizes == SizesInit /\ [][SizesNext]_vars

\* n is the floor of sample_rate * duration_us / 1000000
IsFloor(n, sample_rate, duration_us) ==
    /\ n * 1000000 <= sample_rate * duration_us
    /\ sample_rate * duration_us < (n + 1) * 1000000

\* C38: tone_size and gap_size are the floor of sample_rate * duration_us /
\* 1000000, and the number of samples the transmitter emits for one pulse is
\* the receiver's stride tone_size + gap_size.
C38_PulseSizes ==
    /\ sizing.rx =>
          /\ IsFloor(sizing.tone_size, sizing.sample_rate, sizing.tone_us)
          /\ IsFloor(sizing.gap_size, sizing.sample_rate, sizing.gap_us)
    /\ (sizing.rx /\ sizing.tx) => sizing.pulse = sizing.tone_size + sizing.gap_size

C38_Witness ==
    /\ sizing.rx /\ sizing.tx /\ sizing.sample_rate = 44100 /\ sizing.tone_us = 333
    /\ sizing.gap_us = 4999 /\ sizing.tone_size = 14 /\ sizing.gap_size = 220
    /\ sizing.pulse = 234

----------------------------------------------------------------------------
(* Full-scale magnitudes of integer PCM for a bit depth, in i32            *)
(* arithmetic.  An overflowing i32 operation panics in a build with        *)
(* overflow checks and wraps in a build without them.                      *)

I32_MAX == 2147483647
I32_MIN == (0 - I32_MAX) - 1
I16_MAX == 32767

Builds == {"checked", "unchecked"}

BitDepths == {8, 16, 24, 32}

PcmSamples == {I32_MIN, 0 - 32768, 0 - 32767, 0 - 1, 0, 1, 32767, I32_MAX}

\* 2i32.pow(e) for e in 0..31: the value wrapped to 32 bits, and whether the
\* power left the range of i32
i32_pow2(e) ==
    IF e <= 30 THEN [value |-> 2 ^ e, overflow |-> FALSE]
    ELSE [value |-> I32_MIN, overflow |-> TRUE]

\* x - 1 in i32
i32_pred(x) ==
    IF x = I32_MIN THEN [value |-> I32_MAX, overflow |-> TRUE]
    ELSE [value |-> x - 1, overflow |-> FALSE]

\* (2i32.pow(bps - 1)) - 1 and -positive - 1, as AudioSpec::get_magnitudes
\* and get_bit_depth_magnitudes compute them
bit_depth_magnitudes(bps, build, by) ==
    LET power == i32_pow2(bps - 1)
        pred  == i32_pred(power.value)
    IN  IF build = "checked" /\ (power.overflow \/ pred.overflow)
        THEN [NoMagnitude EXCEPT !.by = by, !.panicked = TRUE, !.overflowed = TRUE]
        ELSE [by |-> by, panicked |-> FALSE, overflowed |-> power.overflow \/ pred.overflow,
              positive |-> pred.value, negative |-> (0 - pred.value) - 1]

\* NormSamples::i32_to_f32: the quotient sample / i16::MAX or sample / i32::MAX
i32_to_f32(sample, bps) ==
    CASE bps = 16 -> [done |-> TRUE, panicked |-> FALSE, num |-> sample, den |-> I16_MAX]
      [] bps = 32 -> [done |-> TRUE, panicked |-> FALSE, num |-> sample, den |-> I32_MAX]
      [] OTHER    -> [done |-> TRUE, panicked |-> TRUE, num |-> 0, den |-> 1]

PcmInit ==
    /\ \E b \in BitDepths, k \in Builds, x \in PcmSamples :
          pcm = [NoPcm EXCEPT !.bps = b, !.build = k, !.sample = x]
    /\ sizing = NoSizing
    /\ data = <<>>
    /\ tx_samples = <<>>
    /\ pos = 0
    /\ bits = <<>>
    /\ delivered = <<>>
    /\ ResolverIdle
    /\ ReceiverIdle
    /\ GhostIdle
    /\ StreamIdle
    /\ FifoIdle
    /\ PlayerIdle
    /\ ProfileIdle

\* AudioSpec::get_magnitudes
AudioSpecMagnitudes ==
    /\ pcm.magnitude.by = "none"
    /\ pcm' = [pcm EXCEPT !.magnitude = bit_depth_magnitudes(pcm.bps, pcm.build, "AudioSpec")]
    /\ UNCHANGED <<sizing, txvars, rvars, rxvars, livevars, stxvars, fifovars, playvars, profvars,
                   ghostvars>>

\* get_bit_depth_magnitudes, before the conversion of the result to f32
DepthMagnitudes ==
    /\ pcm.magnitude.by = "none"
    /\ pcm' = [pcm EXCEPT !.magnitude = bit_depth_magnitudes(pcm.bps, pcm.build, "utils")]
    /\ UNCHANGED <<sizing, txvars, rvars, rxvars, livevars, stxvars, fifovars, playvars, profvars,
                   ghostvars>>

\* NormSamples::from_i32 on one sample
NormalizeSample ==
    /\ ~pcm.norm.done
    /\ pcm' = [pcm EXCEPT !.norm = i32_to_f32(pcm.sample, pcm.bps)]
    /\ UNCHANGED <<sizing, txvars, rvars, rxvars, livevars, stxvars, fifovars, playvars, profvars,
                   ghostvars>>

PcmNext == AudioSpecMagnitudes \/ DepthMagnitudes \/ NormalizeSample

SpecPcm == PcmInit /\ [][PcmNext]_vars

\* C39: for 16 and 32 bits per sample the positive full-scale magnitude is
\* computed as 2^(bps - 1) - 1, that is 32767 and 2147483647, and no
\* intermediate value of the computation leaves the range of i32; the
\* divisor of the normalisation is the same magnitude.
C39_FullScale ==
    /\ (pcm.magnitude.by # "none" /\ pcm.bps \in {16, 32}) =>
          /\ ~pcm.magnitude.panicked
          /\ ~pcm.magnitude.overflowed
          /\ pcm.magnitude.positive = (IF pcm.bps = 16 THEN I16_MAX ELSE I32_MAX)
    /\ (pcm.norm.done /\ pcm.bps \in {16, 32}) =>
          /\ ~pcm.norm.panicked
          /\ pcm.norm.den = (IF pcm.bps = 16 THEN I16_MAX ELSE I32_MAX)

====
